---- MODULE Spec2Model ----
(***************************************************************************)
(* State-machine model of the devMedia API handlers                        *)
(*   src/routes/api/posts.js    (posts, likes, comments)                   *)
(*   src/routes/api/profile.js  (profiles, experience, education)          *)
(*                                                                         *)
(* Every handler is an async function: each `await` on the document store  *)
(* is a point where other requests run.  A handler is therefore cut into   *)
(* one action per awaited store call; the code between two awaits is one   *)
(* atomic step.  A request that has loaded a document and not finished is  *)
(* kept in the bag `reqs` together with its in-memory copy of the document.*)
(***************************************************************************)
EXTENDS Integers, Sequences, FiniteSets, Bags, TLC

\* ------------------------------------------------------------------ bounds
MaxPosts    == 2    \* posts ever created
MaxComments == 3    \* comments ever created
MaxEntries  == 3    \* experience and education entries ever created
MaxPresent  == 2    \* optional fields one upsert request carries
MaxInflight == 2    \* requests suspended at an await at the same time
MaxProfiles == 3    \* profiles ever created
MaxDate     == 2    \* readings of the clock

\* ------------------------------------------------------------------ domains
Principals == {"A", "B", "C"}        \* users that hold a valid token
Racers     == {"A", "B"}             \* the principals of the concurrent runs
PostIds    == 1..MaxPosts
BadId      == 0                      \* a string that is no ObjectId
IdParams   == PostIds \cup {BadId}   \* what :id may carry
CommentIds == 1..MaxComments         \* what :comm_id may carry
Texts      == {"", "hello"}          \* a request's text field
Dates      == 1..MaxDate             \* what the clock reads when a Post is made

\* ------------------------------------------------------------------ state
VARIABLES
  users,      \* ids of the User documents in the store
  posts,      \* the Post collection: post id -> document
  nextPost,   \* next unused post id
  nextComment,\* next unused comment id
  profiles,   \* the Profile collection: profile id -> document
  nextProfile,\* next unused profile id
  nextEntry,  \* next unused experience/education id
  reqs,       \* bag of requests suspended at an await
  resp,       \* the response sent last
  written,    \* what the store answered to the write of the last step:
              \* "ack", "rejected", or "none" where the step wrote nothing
  up          \* the node process is running

profVars == <<profiles, nextProfile, nextEntry>>
vars == <<users, posts, nextPost, nextComment, profVars, reqs, resp, written, up>>

\* ------------------------------------------------------------------ helpers
RECURSIVE IndexOfFrom(_, _, _)
IndexOfFrom(s, x, i) ==
  IF i > Len(s) THEN 0 ELSE IF s[i] = x THEN i ELSE IndexOfFrom(s, x, i + 1)

\* Array.prototype.indexOf, 1-based; 0 where JavaScript answers -1.
IndexOf(s, x) == IndexOfFrom(s, x, 1)

\* Array.prototype.splice(i, 1) with a 1-based i; 0 stands for -1, which
\* JavaScript counts from the end: the last element leaves.
Splice1(s, i) ==
  LET at == IF i = 0 THEN Len(s) ELSE i IN
  [k \in 1..(Len(s) - 1) |-> IF k < at THEN s[k] ELSE s[k + 1]]

\* Array.prototype.unshift(x).
Unshift(s, x) == <<x>> \o s

NoDup(s) == \A i, j \in 1..Len(s) : s[i] = s[j] => i = j

\* A request suspended at an await, with the document it loaded.
Req(op, user, id, cid, doc, pc) ==
  [op |-> op, user |-> user, id |-> id, cid |-> cid, doc |-> doc, pc |-> pc]

Inflight  == BagToSet(reqs)
Suspend(r) == reqs' = reqs (+) SetToBag({r})
Resume(r)  == reqs' = reqs (-) SetToBag({r})

\* A response: the :id it answers, the status code, and the array sent.
Response(op, id, code, body) == [op |-> op, id |-> id, code |-> code, body |-> body]

\* A save that adds the new head to the likes that are stored.
SaveLikesMerged(store, id, likes) ==
  IF id \in DOMAIN store THEN [store EXCEPT ![id].likes = <<Head(likes)>> \o @] ELSE store

\* document.save() of a loaded Post whose `likes` path was modified: the
\* store sets that path on the stored document; a document removed since
\* the load is not brought back.
SaveLikes(store, id, likes) ==
  IF id \in DOMAIN store THEN [store EXCEPT ![id].likes = likes] ELSE store

\* The same for a Post whose `comments` path was modified.
SaveComments(store, id, comments) ==
  IF id \in DOMAIN store THEN [store EXCEPT ![id].comments = comments] ELSE store

Init ==
  /\ users = Principals
  /\ posts = [i \in {} |-> 0]
  /\ nextPost = 1
  /\ nextComment = 1
  /\ profiles = [i \in {} |-> 0]
  /\ nextProfile = 1
  /\ nextEntry = 1
  /\ reqs = EmptyBag
  /\ resp = Response("none", 0, 0, <<>>)
  /\ written = "none"
  /\ up = TRUE

\* ------------------------------------------------------------------ posts
\* new Post({ text, name, avatar, user }): `date` is the creation timestamp,
\* the reading of the wall clock when the document is made.
NewPost(user, date) ==
  [user |-> user, date |-> date, likes |-> <<>>, comments |-> <<>>]

Insert(store, id, doc) ==
  [i \in DOMAIN store \cup {id} |-> IF i = id THEN doc ELSE store[i]]

Remove(store, id) == [i \in DOMAIN store \ {id} |-> store[i]]

\* POST /api/posts.  The two awaits (User.findById, newPost.save) are one
\* step: the user document is only dereferenced for its name and avatar.
CreatePost(p, text) ==
  /\ up
  /\ UNCHANGED <<profVars, users, up, nextComment, reqs>>
  /\ \/ /\ text = ""
        /\ resp' = Response("create", 0, 400, <<>>)
        /\ written' = "none"
        /\ UNCHANGED <<posts, nextPost>>
     \/ /\ text # ""
        /\ p \notin users                      \* user is null: user.name throws
        /\ resp' = Response("create", 0, 500, <<>>)
        /\ written' = "none"
        /\ UNCHANGED <<posts, nextPost>>
     \/ /\ text # ""
        /\ p \in users
        /\ nextPost <= MaxPosts
        /\ \/ /\ \E d \in Dates : posts' = Insert(posts, nextPost, NewPost(p, d))
              /\ nextPost' = nextPost + 1
              /\ resp' = Response("create", nextPost, 200, <<>>)
              /\ written' = "ack"
           \/ /\ resp' = Response("create", 0, 500, <<>>)   \* save rejects
              /\ written' = "rejected"
              /\ UNCHANGED <<posts, nextPost>>

\* The sort with the comparison turned round.
InsertByDateAsc(sorted, id, store) ==
  LET before == {k \in 1..Len(sorted) : store[sorted[k]].date <= store[id].date}
      n      == Cardinality(before)
  IN SubSeq(sorted, 1, n) \o <<id>> \o SubSeq(sorted, n + 1, Len(sorted))

\* One step of sort({ date: -1 }): `id` goes behind the posts of `sorted`
\* whose date is not older than its own.
InsertByDate(sorted, id, store) ==
  LET before == {k \in 1..Len(sorted) : store[sorted[k]].date >= store[id].date}
      n      == Cardinality(before)
  IN SubSeq(sorted, 1, n) \o <<id>> \o SubSeq(sorted, n + 1, Len(sorted))

\* Post.find().sort({ date: -1 }): the posts are met in the order of the
\* collection, oldest _id first, and sorted newest date first.
RECURSIVE SortByDate(_, _, _)
SortByDate(sorted, ids, store) ==
  IF ids = {} THEN sorted
  ELSE LET id == CHOOSE i \in ids : \A j \in ids : i <= j IN
       SortByDate(InsertByDate(sorted, id, store), ids \ {id}, store)

\* GET /api/posts: the posts sent, named by their _id.
ListPosts(p) ==
  /\ up
  /\ UNCHANGED <<profVars, users, up, posts, nextPost, nextComment, reqs>>
  /\ written' = "none"
  /\ \/ resp' = Response("list", 0, 200, SortByDate(<<>>, DOMAIN posts, posts))
     \/ resp' = Response("list", 0, 500, <<>>)            \* find rejects

\* GET /api/posts/:id
GetPost(p, id) ==
  /\ up
  /\ UNCHANGED <<profVars, users, up, posts, nextPost, nextComment, reqs>>
  /\ \/ /\ id = BadId                          \* CastError, err.kind "ObjectId"
        /\ resp' = Response("get", id, 404, <<>>)
        /\ written' = "none"
     \/ /\ id # BadId
        /\ id \notin DOMAIN posts
        /\ resp' = Response("get", id, 404, <<>>)
        /\ written' = "none"
     \/ /\ id \in DOMAIN posts
        /\ resp' = Response("get", id, 200, <<posts[id]>>)
        /\ written' = "ack"

\* DELETE /api/posts/:id, up to and including `await Post.findById`.
DeletePostFind(p, id) ==
  /\ up
  /\ UNCHANGED <<profVars, users, up, posts, nextPost, nextComment>>
  /\ \/ /\ id = BadId
        /\ resp' = Response("delete", id, 404, <<>>)
        /\ written' = "none"
        /\ UNCHANGED reqs
     \/ /\ id # BadId
        /\ id \notin DOMAIN posts
        /\ resp' = Response("delete", id, 404, <<>>)
        /\ written' = "none"
        /\ UNCHANGED reqs
     \/ /\ id \in DOMAIN posts
        /\ Suspend(Req("delete", p, id, 0, posts[id], "loaded"))
        /\ UNCHANGED resp
        /\ written' = "none"

\* The owner check left out.
NotOwnerNever(doc, p) == FALSE

\* post.user.toString() !== req.user.id
NotOwner(doc, p) == doc.user # p

\* DELETE /api/posts/:id, from the owner check to the response.
DeletePostRemove(r) ==
  /\ r.op = "delete"
  /\ Resume(r)
  /\ UNCHANGED <<profVars, users, up, nextPost, nextComment>>
  /\ \/ /\ NotOwner(r.doc, r.user)
        /\ resp' = Response("delete", r.id, 401, <<>>)
        /\ written' = "none"
        /\ UNCHANGED posts
     \/ /\ ~NotOwner(r.doc, r.user)
        /\ \/ /\ posts' = Remove(posts, r.id)
              /\ resp' = Response("delete", r.id, 200, <<>>)
              /\ written' = "ack"
           \/ /\ resp' = Response("delete", r.id, 500, <<>>)  \* remove rejects
              /\ written' = "rejected"
              /\ UNCHANGED posts

\* ------------------------------------------------------------------ likes
\* An ObjectId compared with a string, without toString(): never equal.
LikedNoToString(doc, p) == FALSE

\* post.likes.filter(like => like.user.toString() === req.user.id).length > 0
Liked(doc, p) == \E i \in 1..Len(doc.likes) : doc.likes[i] = p

\* PUT /api/posts/like/:id and /unlike/:id, up to `await Post.findById`.
\* A null post makes `post.likes` throw; the catch answers 500.
LikeFind(op, p, id) ==
  /\ up
  /\ op \in {"like", "unlike"}
  /\ UNCHANGED <<profVars, users, up, posts, nextPost, nextComment>>
  /\ \/ /\ id \notin DOMAIN posts               \* CastError or TypeError
        /\ resp' = Response(op, id, 500, <<>>)
        /\ written' = "none"
        /\ UNCHANGED reqs
     \/ /\ id \in DOMAIN posts
        /\ Suspend(Req(op, p, id, 0, posts[id], "loaded"))
        /\ UNCHANGED resp
        /\ written' = "none"

\* push in place of unshift.
LikeMutatePush(likes, p) == Append(likes, p)

\* post.likes.unshift({ user: req.user.id })
LikeMutate(likes, p) == Unshift(likes, p)

\* PUT /api/posts/like/:id, from the duplicate check to the response.
LikeSave(r) ==
  /\ r.op = "like"
  /\ Resume(r)
  /\ UNCHANGED <<profVars, users, up, nextPost, nextComment>>
  /\ \/ /\ Liked(r.doc, r.user)
        /\ resp' = Response("like", r.id, 400, <<>>)
        /\ written' = "none"
        /\ UNCHANGED posts
     \/ /\ ~Liked(r.doc, r.user)
        /\ LET likes == LikeMutate(r.doc.likes, r.user) IN
           \/ /\ posts' = SaveLikes(posts, r.id, likes)
              /\ resp' = Response("like", r.id, 200, likes)
              /\ written' = "ack"
           \/ /\ resp' = Response("like", r.id, 500, <<>>)   \* save rejects
              /\ written' = "rejected"
              /\ UNCHANGED posts

\* splice(rmvIdx) without a count: removes to the end of the array.
UnlikeMutateToEnd(likes, p) == SubSeq(likes, 1, IndexOf(likes, p) - 1)

\* pop() in place of splice(rmvIdx, 1): the last entry leaves.
UnlikeMutatePop(likes, p) == SubSeq(likes, 1, Len(likes) - 1)

\* rmvIdx = post.likes.map(like => like.user.toString()).indexOf(req.user.id);
\* post.likes.splice(rmvIdx, 1)
UnlikeMutate(likes, p) == Splice1(likes, IndexOf(likes, p))

\* PUT /api/posts/unlike/:id, from the check to the response.
UnlikeSave(r) ==
  /\ r.op = "unlike"
  /\ Resume(r)
  /\ UNCHANGED <<profVars, users, up, nextPost, nextComment>>
  /\ \/ /\ ~Liked(r.doc, r.user)
        /\ resp' = Response("unlike", r.id, 400, <<>>)
        /\ written' = "none"
        /\ UNCHANGED posts
     \/ /\ Liked(r.doc, r.user)
        /\ LET likes == UnlikeMutate(r.doc.likes, r.user) IN
           \/ /\ posts' = SaveLikes(posts, r.id, likes)
              /\ resp' = Response("unlike", r.id, 200, likes)
              /\ written' = "ack"
           \/ /\ resp' = Response("unlike", r.id, 500, <<>>) \* save rejects
              /\ written' = "rejected"
              /\ UNCHANGED posts

\* ------------------------------------------------------------------ comments
\* A comment sub-document: its generated _id and its author.
NewComment(id, user) == [id |-> id, user |-> user]

\* POST /api/posts/comment/:id, up to `await Post.findById`.  A malformed
\* id, a null user and a null post all end in the catch.
CommentFind(p, id, text) ==
  /\ up
  /\ UNCHANGED <<profVars, users, up, posts, nextPost, nextComment>>
  /\ \/ /\ text = ""
        /\ resp' = Response("comment", id, 400, <<>>)
        /\ written' = "none"
        /\ UNCHANGED reqs
     \/ /\ text # ""
        /\ (p \notin users \/ id \notin DOMAIN posts)
        /\ resp' = Response("comment", id, 500, <<>>)
        /\ written' = "none"
        /\ UNCHANGED reqs
     \/ /\ text # ""
        /\ p \in users
        /\ id \in DOMAIN posts
        /\ Suspend(Req("comment", p, id, 0, posts[id], "loaded"))
        /\ UNCHANGED resp
        /\ written' = "none"

\* post.comments.unshift(newComment); post.save(); res.json(post.comments)
\* The save is not awaited: the response leaves with the write in flight.
CommentRespond(r) ==
  /\ r.op = "comment"
  /\ r.pc = "loaded"
  /\ nextComment <= MaxComments
  /\ LET comments == Unshift(r.doc.comments, NewComment(nextComment, r.user)) IN
       /\ reqs' = (reqs (-) SetToBag({r}))
                     (+) SetToBag({[r EXCEPT !.doc.comments = comments,
                                             !.pc = "pending"]})
       /\ resp' = Response("comment", r.id, 200, comments)
       /\ written' = "none"
  /\ nextComment' = nextComment + 1
  /\ UNCHANGED <<profVars, users, up, posts, nextPost>>

\* The process ends: the requests it was serving end with it.
Crash ==
  /\ up' = FALSE
  /\ reqs' = EmptyBag

\* The write of an answered comment request reaches the store, or is
\* rejected with nobody awaiting it: the promise of post.save() has no
\* handler, and a rejection that nobody handles is logged by the runtime
\* or, from Node.js 15 on, ends the process.
CommentPersist(r) ==
  /\ r.op = "comment"
  /\ r.pc = "pending"
  /\ UNCHANGED <<profVars, users, nextPost, nextComment, resp>>
  /\ \/ /\ posts' = SaveComments(posts, r.id, r.doc.comments)
        /\ written' = "ack"
        /\ Resume(r)
        /\ UNCHANGED up
     \/ /\ UNCHANGED posts                      \* save rejects
        /\ written' = "rejected"
        /\ \/ Resume(r) /\ UNCHANGED up
           \/ Crash

\* DELETE /api/posts/comment/:id/:comm_id, up to `await Post.findById`.
UncommentFind(p, id, cid) ==
  /\ up
  /\ UNCHANGED <<profVars, users, up, posts, nextPost, nextComment>>
  /\ \/ /\ id \notin DOMAIN posts               \* CastError or TypeError
        /\ resp' = Response("uncomment", id, 500, <<>>)
        /\ written' = "none"
        /\ UNCHANGED reqs
     \/ /\ id \in DOMAIN posts
        /\ Suspend(Req("uncomment", p, id, cid, posts[id], "loaded"))
        /\ UNCHANGED resp
        /\ written' = "none"

\* post.comments.find(comment => comment.id === req.params.comm_id):
\* the index of the first comment with that id, 0 for undefined.
RECURSIVE FindCommentFrom(_, _, _)
FindCommentFrom(comments, cid, i) ==
  IF i > Len(comments) THEN 0
  ELSE IF comments[i].id = cid THEN i
  ELSE FindCommentFrom(comments, cid, i + 1)

FindComment(comments, cid) == FindCommentFrom(comments, cid, 1)

\* The author check made against the owner of the post.
NotAuthorOfPost(doc, comment, p) == doc.user # p

\* comment.user.toString() !== req.user.id
NotAuthor(doc, comment, p) == comment.user # p

\* post.comments.map(comment => comment.user.toString())
CommentUsers(comments) == [i \in 1..Len(comments) |-> comments[i].user]

\* shift() in place of splice(rmvIdx, 1): the newest comment leaves.
UncommentMutateShift(comments, cid, p) == Tail(comments)

\* rmvIdx = post.comments.map(...).indexOf(req.user.id);
\* post.comments.splice(rmvIdx, 1)
UncommentMutate(comments, cid, p) ==
  Splice1(comments, IndexOf(CommentUsers(comments), p))

\* post.save() without await: the answer leaves before the write has ended.
UncommentSaveUnawaited(r) ==
  /\ r.op = "uncomment"
  /\ Resume(r)
  /\ UNCHANGED <<profVars, users, up, nextPost, nextComment, posts>>
  /\ resp' = Response("uncomment", r.id, 200, r.doc.comments)
  /\ written' = "none"

\* DELETE /api/posts/comment/:id/:comm_id, from the lookup to the response.
UncommentSave(r) ==
  /\ r.op = "uncomment"
  /\ Resume(r)
  /\ UNCHANGED <<profVars, users, up, nextPost, nextComment>>
  /\ LET k == FindComment(r.doc.comments, r.cid) IN
     \/ /\ k = 0
        /\ resp' = Response("uncomment", r.id, 404, <<>>)
        /\ written' = "none"
        /\ UNCHANGED posts
     \/ /\ k # 0
        /\ NotAuthor(r.doc, r.doc.comments[k], r.user)
        /\ resp' = Response("uncomment", r.id, 401, <<>>)
        /\ written' = "none"
        /\ UNCHANGED posts
     \/ /\ k # 0
        /\ ~NotAuthor(r.doc, r.doc.comments[k], r.user)
        /\ LET comments == UncommentMutate(r.doc.comments, r.cid, r.user) IN
           \/ /\ posts' = SaveComments(posts, r.id, comments)
              /\ resp' = Response("uncomment", r.id, 200, comments)
              /\ written' = "ack"
           \/ /\ resp' = Response("uncomment", r.id, 500, <<>>)  \* save rejects
              /\ written' = "rejected"
              /\ UNCHANGED posts

\* ------------------------------------------------------------------ profiles
TopKeys    == {"company", "website", "location", "bio", "githubusername"}
SocialKeys == {"youtube", "facebook", "twitter", "instagram", "linkedin"}
EntryIds   == 1..MaxEntries           \* what :exp_id and :edu_id may carry

\* A string is a sequence of characters; "" is <<>>.
RECURSIVE SplitFrom(_, _, _)
SplitFrom(str, i, piece) ==
  IF i > Len(str) THEN <<piece>>
  ELSE IF str[i] = "," THEN <<piece>> \o SplitFrom(str, i + 1, <<>>)
  ELSE SplitFrom(str, i + 1, Append(piece, str[i]))

\* String.prototype.split(",")
Split(str) == SplitFrom(str, 1, <<>>)

RECURSIVE TrimStart(_)
TrimStart(str) ==
  IF str # <<>> /\ Head(str) = " " THEN TrimStart(Tail(str)) ELSE str

RECURSIVE TrimEnd(_)
TrimEnd(str) ==
  IF str # <<>> /\ str[Len(str)] = " "
    THEN TrimEnd(SubSeq(str, 1, Len(str) - 1)) ELSE str

\* String.prototype.trim()
Trim(str) == TrimEnd(TrimStart(str))

\* skills.split(",").map(skill => skill.trim())
SplitSkills(str) == [i \in 1..Len(Split(str)) |-> Trim(Split(str)[i])]

\* req.body of an upsert: every field a string, "" when it was not sent.
Body(status, skills, present) ==
  [status |-> status, skills |-> skills,
   company        |-> IF "company" \in present THEN "v" ELSE "",
   website        |-> IF "website" \in present THEN "v" ELSE "",
   location       |-> IF "location" \in present THEN "v" ELSE "",
   bio            |-> IF "bio" \in present THEN "v" ELSE "",
   githubusername |-> IF "githubusername" \in present THEN "v" ELSE "",
   youtube        |-> IF "youtube" \in present THEN "v" ELSE "",
   facebook       |-> IF "facebook" \in present THEN "v" ELSE "",
   twitter        |-> IF "twitter" \in present THEN "v" ELSE "",
   instagram      |-> IF "instagram" \in present THEN "v" ELSE "",
   linkedin       |-> IF "linkedin" \in present THEN "v" ELSE ""]

Statuses    == {"", "dev"}
SkillInputs == {<<>>, <<"a", ",", " ", "b", " ">>}
Bodies ==
  {Body(st, sk, pr) : st \in Statuses, sk \in SkillInputs,
     pr \in {x \in SUBSET (TopKeys \cup SocialKeys) : Cardinality(x) <= MaxPresent}}

\* profileFields.social: the social keys the request carries.
SocialFields(b) == [k \in {j \in SocialKeys : b[j] # ""} |-> b[k]]

\* profileFields: a key for every field the request carries, and always
\* `user` and `social`.
ProfileFields(p, b) ==
  [k \in {"user", "social"}
          \cup {j \in TopKeys \cup {"status"} : b[j] # ""}
          \cup (IF b.skills # <<>> THEN {"skills"} ELSE {}) |->
     CASE k = "user"   -> p
       [] k = "social" -> SocialFields(b)
       [] k = "skills" -> SplitSkills(b.skills)
       [] OTHER        -> b[k]]

\* A Profile document with nothing set: "" stands for a missing field.
BlankProfile ==
  [user |-> "", company |-> "", website |-> "", location |-> "", bio |-> "",
   status |-> "", githubusername |-> "", skills |-> <<>>,
   social |-> [k \in SocialKeys |-> ""],
   experience |-> <<>>, education |-> <<>>]

\* { $set: profileFields }: each key of the update replaces the value
\* stored under that key, the `social` object as a whole.
SetFields(doc, upd) ==
  [k \in DOMAIN doc |->
     IF k \notin DOMAIN upd THEN doc[k]
     ELSE IF k = "social"
       THEN [j \in SocialKeys |-> IF j \in DOMAIN upd.social THEN upd.social[j] ELSE ""]
       ELSE upd[k]]

\* new Profile(profileFields)
NewProfile(fields) == SetFields(BlankProfile, fields)

\* The filter { user: req.user.id } matching any document.
MatchesAny(doc, p) == TRUE

\* The filter { user: req.user.id }.
Matches(doc, p) == doc.user = p

\* Profile.findOne() without a filter: the first Profile of the store.
FindOneUnfiltered(p) ==
  IF DOMAIN profiles = {} THEN 0
  ELSE CHOOSE i \in DOMAIN profiles : \A j \in DOMAIN profiles : i <= j

\* Profile.findOne({ user: req.user.id }): the id of the first match, 0 for null.
FindOne(p) ==
  LET hits == {i \in DOMAIN profiles : Matches(profiles[i], p)} IN
  IF hits = {} THEN 0 ELSE CHOOSE i \in hits : \A j \in hits : i <= j

\* The unique index on Profile.user refuses a second document of a user.
DuplicateKey(p) == \E i \in DOMAIN profiles : profiles[i].user = p

\* POST /api/profile, up to `await Profile.findOne`.
UpsertFind(p, b) ==
  /\ up
  /\ UNCHANGED <<profVars, users, up, posts, nextPost, nextComment>>
  /\ \/ /\ (b.status = "" \/ b.skills = <<>>)
        /\ resp' = Response("upsert", 0, 400, <<>>)
        /\ written' = "none"
        /\ UNCHANGED reqs
     \/ /\ b.status # ""
        /\ b.skills # <<>>
        /\ Suspend(Req("upsert", p, FindOne(p), 0, ProfileFields(p, b), "loaded"))
        /\ UNCHANGED resp
        /\ written' = "none"

\* POST /api/profile, from `if (profile)` to the response.
UpsertWrite(r) ==
  /\ r.op = "upsert"
  /\ Resume(r)
  /\ UNCHANGED <<users, up, posts, nextPost, nextComment, nextEntry>>
  /\ \/ /\ r.id # 0                            \* findOneAndUpdate
        /\ UNCHANGED nextProfile
        /\ LET hit == FindOne(r.user) IN
           \/ /\ hit # 0
              /\ profiles' = [profiles EXCEPT ![hit] = SetFields(@, r.doc)]
              /\ resp' = Response("upsert", hit, 200, <<profiles'[hit]>>)
              /\ written' = "ack"
           \/ /\ hit = 0                        \* no document: null is sent
              /\ resp' = Response("upsert", 0, 200, <<>>)
              /\ written' = "ack"
              /\ UNCHANGED profiles
           \/ /\ resp' = Response("upsert", 0, 500, <<>>)   \* update rejects
              /\ written' = "rejected"
              /\ UNCHANGED profiles
     \/ /\ r.id = 0                            \* new Profile(...).save()
        /\ \/ /\ ~DuplicateKey(r.user)
              /\ nextProfile <= MaxProfiles
              /\ profiles' = Insert(profiles, nextProfile, NewProfile(r.doc))
              /\ nextProfile' = nextProfile + 1
              /\ resp' = Response("upsert", nextProfile, 200, <<profiles'[nextProfile]>>)
              /\ written' = "ack"
           \/ /\ resp' = Response("upsert", 0, 500, <<>>)   \* save rejects
              /\ written' = "rejected"
              /\ UNCHANGED <<profiles, nextProfile>>

\* The array an entry request works on.
PathOf(op) ==
  IF op \in {"addExperience", "removeExperience"} THEN "experience" ELSE "education"

\* profile.save() of a loaded Profile whose experience or education array
\* was modified.
SaveEntries(store, id, path, entries) ==
  IF id \in DOMAIN store THEN [store EXCEPT ![id][path] = entries] ELSE store

\* PUT /api/profile/experience and /education, DELETE .../:exp_id and
\* .../:edu_id, up to `await Profile.findOne`.  `title` stands for the
\* required fields of the entry; a null profile ends in the catch.
EntryFind(op, p, eid, title) ==
  /\ up
  /\ op \in {"addExperience", "addEducation", "removeExperience", "removeEducation"}
  /\ UNCHANGED <<profVars, users, up, posts, nextPost, nextComment>>
  /\ \/ /\ op \in {"addExperience", "addEducation"}
        /\ title = ""
        /\ resp' = Response(op, 0, 400, <<>>)
        /\ written' = "none"
        /\ UNCHANGED reqs
     \/ /\ op \in {"addExperience", "addEducation"} => title # ""
        /\ FindOne(p) = 0
        /\ resp' = Response(op, 0, 500, <<>>)
        /\ written' = "none"
        /\ UNCHANGED reqs
     \/ /\ op \in {"addExperience", "addEducation"} => title # ""
        /\ FindOne(p) # 0
        /\ Suspend(Req(op, p, FindOne(p), eid, profiles[FindOne(p)], "loaded"))
        /\ UNCHANGED resp
        /\ written' = "none"

\* push in place of unshift.
AddEntryPush(entries, e) == Append(entries, e)

\* profile.experience.unshift(newExp)
AddEntry(entries, e) == Unshift(entries, e)

\* PUT /api/profile/experience and /education, from unshift to the response.
EntryAdd(r) ==
  /\ r.op \in {"addExperience", "addEducation"}
  /\ nextEntry <= MaxEntries
  /\ Resume(r)
  /\ UNCHANGED <<users, up, posts, nextPost, nextComment, nextProfile>>
  /\ nextEntry' = nextEntry + 1
  /\ LET path    == PathOf(r.op)
         entries == AddEntry(r.doc[path], [id |-> nextEntry])
     IN
     \/ /\ profiles' = SaveEntries(profiles, r.id, path, entries)
        /\ resp' = Response(r.op, r.id, 200, <<[r.doc EXCEPT ![path] = entries]>>)
        /\ written' = "ack"
     \/ /\ resp' = Response(r.op, r.id, 500, <<>>)           \* save rejects
        /\ written' = "rejected"
        /\ UNCHANGED profiles

\* profile.experience.map(item => item.id)
EntryIdsOf(entries) == [i \in 1..Len(entries) |-> entries[i].id]

\* splice(rmvIdx) without a count: removes to the end of the array.
RemoveEntryToEnd(entries, eid) ==
  SubSeq(entries, 1, IndexOf(EntryIdsOf(entries), eid) - 1)

\* rmvIdx = profile.experience.map(item => item.id).indexOf(req.params.exp_id);
\* profile.experience.splice(rmvIdx, 1)
RemoveEntry(entries, eid) == Splice1(entries, IndexOf(EntryIdsOf(entries), eid))

\* DELETE /api/profile/experience/:exp_id and /education/:edu_id, from the
\* lookup to the response.
EntryRemove(r) ==
  /\ r.op \in {"removeExperience", "removeEducation"}
  /\ Resume(r)
  /\ UNCHANGED <<users, up, posts, nextPost, nextComment, nextProfile, nextEntry>>
  /\ LET path == PathOf(r.op) IN
     \/ /\ IndexOf(EntryIdsOf(r.doc[path]), r.cid) = 0
        /\ resp' = Response(r.op, r.id, 400, <<>>)
        /\ written' = "none"
        /\ UNCHANGED profiles
     \/ /\ IndexOf(EntryIdsOf(r.doc[path]), r.cid) # 0
        /\ LET entries == RemoveEntry(r.doc[path], r.cid) IN
           \/ /\ profiles' = SaveEntries(profiles, r.id, path, entries)
              /\ resp' = Response(r.op, r.id, 200, <<[r.doc EXCEPT ![path] = entries]>>)
              /\ written' = "ack"
           \/ /\ resp' = Response(r.op, r.id, 500, <<>>)     \* save rejects
              /\ written' = "rejected"
              /\ UNCHANGED profiles

\* ------------------------------------------------------------------ account
\* DELETE /api/profile, up to `await Profile.findOneAndRemove`: the first
\* Profile of the principal, if there is one, leaves the store.  The
\* handler keeps no document.
DeleteOwnProfile(p) ==
  /\ up
  /\ UNCHANGED <<users, up, posts, nextPost, nextComment, nextProfile, nextEntry>>
  /\ \/ /\ profiles' = IF FindOne(p) = 0 THEN profiles ELSE Remove(profiles, FindOne(p))
        /\ Suspend(Req("deleteOwn", p, FindOne(p), 0, <<>>, "profileRemoved"))
        /\ UNCHANGED resp
        /\ written' = "ack"
     \/ /\ resp' = Response("deleteOwn", 0, 500, <<>>)    \* remove rejects
        /\ written' = "rejected"
        /\ UNCHANGED <<profiles, reqs>>

\* The filter written { id: ... }: no User document has that path.
UserFilterById(u, p) == FALSE

\* The filter { _id: req.user.id }.
UserFilter(u, p) == u = p

\* DELETE /api/profile, from `await User.findOneAndRemove` to the response.
DeleteOwnUser(r) ==
  /\ r.op = "deleteOwn"
  /\ Resume(r)
  /\ UNCHANGED <<profVars, up, posts, nextPost, nextComment>>
  /\ \/ /\ users' = {u \in users : ~UserFilter(u, r.user)}
        /\ resp' = Response("deleteOwn", r.id, 200, <<>>)
        /\ written' = "ack"
     \/ /\ resp' = Response("deleteOwn", r.id, 500, <<>>) \* remove rejects
        /\ written' = "rejected"
        /\ UNCHANGED users

\* ------------------------------------------------------------------ github
\* What the upstream request can end with: a transport error and no
\* response, a response with another status than 200, a response with 200.
Upstream == {"error", "status", "ok"}

\* GET /api/profile/github/:username, the synchronous part: the options are
\* built and request() is called; config.get throws inside the try where a
\* setting is missing.  The route is public: no principal.
GithubRequest ==
  /\ up
  /\ UNCHANGED <<profVars, users, up, posts, nextPost, nextComment>>
  /\ written' = "none"
  /\ \/ /\ Suspend(Req("github", "", 0, 0, <<>>, "requested"))
        /\ UNCHANGED resp
     \/ /\ resp' = Response("github", 0, 500, <<>>)
        /\ UNCHANGED reqs

\* response.statusCode: there is no response after a transport error, and
\* reading a property of undefined throws (0 stands for the TypeError).
StatusOf(outcome) ==
  CASE outcome = "error"  -> 0
    [] outcome = "status" -> 404
    [] outcome = "ok"     -> 200

\* The callback of request().  It runs after the handler has returned, so
\* the handler's try/catch does not cover it: what it throws is an uncaught
\* exception and ends the process.
GithubCallback(r) ==
  /\ r.op = "github"
  /\ UNCHANGED <<profVars, users, posts, nextPost, nextComment>>
  /\ written' = "none"
  /\ \E outcome \in Upstream :
       \/ /\ StatusOf(outcome) = 0
          /\ Crash
          /\ UNCHANGED resp
       \/ /\ StatusOf(outcome) # 0
          /\ Resume(r)
          /\ resp' = Response("github", 0, StatusOf(outcome), <<>>)
          /\ UNCHANGED up

\* ------------------------------------------------------------------ specifications
\* A client that waits for each response before its next request.
Sequential == \A r \in Inflight : r.pc = "pending"

\* A client that sends a request once every earlier write has ended too.
Quiet == reqs = EmptyBag

\* The racing principals, each with at most one request or write under way.
OneEach == BagCardinality(reqs) < Cardinality(Racers)

\* Clients that send up to MaxInflight requests without waiting.
Concurrent == BagCardinality(reqs) < MaxInflight

\* The store holding one post, written by any of `owners`.
InitPostBy(owners) ==
  /\ users = Principals
  /\ \E o \in owners : posts = Insert([i \in {} |-> 0], 1, NewPost(o, 1))
  /\ nextPost = 2
  /\ nextComment = 1
  /\ profiles = [i \in {} |-> 0]
  /\ nextProfile = 1
  /\ nextEntry = 1
  /\ reqs = EmptyBag
  /\ resp = Response("none", 0, 0, <<>>)
  /\ written = "none"
  /\ up = TRUE

\* Like and unlike requests racing on one post, and its deletion.
LikeRaceNext ==
  \/ /\ Concurrent
     /\ \E op \in {"like", "unlike"}, p \in Racers, id \in {1} : LikeFind(op, p, id)
  \/ /\ Concurrent
     /\ \E p \in Racers : DeletePostFind(p, 1)
  \/ \E r \in Inflight : LikeSave(r)
  \/ \E r \in Inflight : UnlikeSave(r)
  \/ \E r \in Inflight : DeletePostRemove(r)

LikeRaceSpec == InitPostBy(Racers) /\ [][LikeRaceNext]_vars

\* Like and unlike requests of three principals, one request at a time.
LikeSeqNext ==
  \/ /\ Sequential
     /\ \E op \in {"like", "unlike"}, p \in Principals, id \in {1, BadId} :
          LikeFind(op, p, id)
  \/ \E r \in Inflight : LikeSave(r)
  \/ \E r \in Inflight : UnlikeSave(r)

LikeSeqSpec == InitPostBy(Principals) /\ [][LikeSeqNext]_vars

\* Posts created, read and deleted by racing principals.
DeleteNext ==
  \/ /\ Concurrent
     /\ \E p \in Racers, t \in Texts : CreatePost(p, t)
  \/ /\ Concurrent
     /\ \E p \in Racers, id \in IdParams : GetPost(p, id)
  \/ /\ Concurrent
     /\ \E p \in Racers, id \in IdParams : DeletePostFind(p, id)
  \/ \E r \in Inflight : DeletePostRemove(r)

DeleteSpec == Init /\ [][DeleteNext]_vars

\* Comments added to and deleted from one post, one request at a time.
CommentNext ==
  \/ /\ Sequential
     /\ \E p \in Racers, id \in {1, BadId}, t \in Texts : CommentFind(p, id, t)
  \/ \E r \in Inflight : CommentRespond(r)
  \/ \E r \in Inflight : CommentPersist(r)
  \/ /\ Sequential
     /\ \E p \in Racers, id \in {1, BadId}, cid \in CommentIds : UncommentFind(p, id, cid)
  \/ \E r \in Inflight : UncommentSave(r)

CommentSpec == InitPostBy(Racers) /\ [][CommentNext]_vars

\* Upserts of two principals racing, each body carrying up to MaxPresent
\* optional fields out of `keys`.
UpsertBodies(keys) == {b \in Bodies : \A k \in (TopKeys \cup SocialKeys) \ keys : b[k] = ""}

UpsertRaceNext ==
  \/ /\ Concurrent
     /\ \E p \in Racers, b \in UpsertBodies({"company", "twitter"}) : UpsertFind(p, b)
  \/ \E r \in Inflight : UpsertWrite(r)

UpsertRaceSpec == Init /\ [][UpsertRaceNext]_vars

\* Upserts of one principal, one request at a time, over all optional fields.
UpsertSeqNext ==
  \/ /\ Sequential
     /\ \E b \in Bodies : UpsertFind("A", b)
  \/ \E r \in Inflight : UpsertWrite(r)

UpsertSeqSpec == Init /\ [][UpsertSeqNext]_vars

\* The store holding a profile of every one of `owners`.
InitProfilesOf(owners) ==
  /\ users = Principals
  /\ posts = [i \in {} |-> 0]
  /\ nextPost = 1
  /\ nextComment = 1
  /\ \E f \in [1..Cardinality(owners) -> owners] :
        /\ \A i, j \in DOMAIN f : f[i] = f[j] => i = j
        /\ profiles = [i \in DOMAIN f |->
                         NewProfile(ProfileFields(f[i], Body("dev", <<"a">>, {})))]
  /\ nextProfile = Cardinality(owners) + 1
  /\ nextEntry = 1
  /\ reqs = EmptyBag
  /\ resp = Response("none", 0, 0, <<>>)
  /\ written = "none"
  /\ up = TRUE

\* Experience and education entries of two principals, one request at a time.
EntryNext ==
  \/ /\ Sequential
     /\ \E op \in {"addExperience", "addEducation"}, p \in Racers, t \in Statuses :
          EntryFind(op, p, 0, t)
  \/ /\ Sequential
     /\ \E op \in {"removeExperience", "removeEducation"}, p \in Racers, e \in EntryIds :
          EntryFind(op, p, e, "")
  \/ \E r \in Inflight : EntryAdd(r)
  \/ \E r \in Inflight : EntryRemove(r)

EntrySpec == InitProfilesOf(Racers) /\ [][EntryNext]_vars

\* The body of a complete upsert without optional fields.
PlainBody == Body("dev", <<"a">>, {})

\* The store holding one post, written by any of `owners`, and a Profile
\* of B.
InitAccount(owners) ==
  /\ users = Principals
  /\ \E o \in owners : posts = Insert([i \in {} |-> 0], 1, NewPost(o, 1))
  /\ nextPost = 2
  /\ nextComment = 1
  /\ profiles = Insert([i \in {} |-> 0], 1, NewProfile(ProfileFields("B", PlainBody)))
  /\ nextProfile = 2
  /\ nextEntry = 1
  /\ reqs = EmptyBag
  /\ resp = Response("none", 0, 0, <<>>)
  /\ written = "none"
  /\ up = TRUE

\* A principal who writes a Profile, likes and comments the post and
\* deletes the account, each request sent after the one before has ended.
AccountNext ==
  \/ /\ Quiet
     /\ UpsertFind("A", PlainBody)
  \/ \E r \in Inflight : UpsertWrite(r)
  \/ /\ Quiet
     /\ LikeFind("like", "A", 1)
  \/ \E r \in Inflight : LikeSave(r)
  \/ /\ Quiet
     /\ CommentFind("A", 1, "hello")
  \/ \E r \in Inflight : CommentRespond(r)
  \/ \E r \in Inflight : CommentPersist(r)
  \/ /\ Quiet
     /\ DeleteOwnProfile("A")
  \/ \E r \in Inflight : DeleteOwnUser(r)

AccountSpec == InitAccount(Racers) /\ [][AccountNext]_vars

\* One principal using every mutation of the two routers on a store that
\* starts empty, each request sent after the one before has ended: one
\* post, one comment and one entry are made, and the Profile is made twice.
SessionNext ==
  \/ /\ Quiet /\ nextPost = 1
     /\ CreatePost("A", "hello")
  \/ /\ Quiet
     /\ \E id \in PostIds : DeletePostFind("A", id)
  \/ \E r \in Inflight : DeletePostRemove(r)
  \/ /\ Quiet
     /\ \E op \in {"like", "unlike"}, id \in PostIds : LikeFind(op, "A", id)
  \/ \E r \in Inflight : LikeSave(r)
  \/ \E r \in Inflight : UnlikeSave(r)
  \/ /\ Quiet /\ nextComment = 1
     /\ \E id \in PostIds : CommentFind("A", id, "hello")
  \/ \E r \in Inflight : CommentRespond(r)
  \/ \E r \in Inflight : CommentPersist(r)
  \/ /\ Quiet
     /\ \E id \in PostIds, cid \in CommentIds : UncommentFind("A", id, cid)
  \/ \E r \in Inflight : UncommentSave(r)
  \/ /\ Quiet /\ nextProfile <= 2
     /\ UpsertFind("A", PlainBody)
  \/ \E r \in Inflight : UpsertWrite(r)
  \/ /\ Quiet /\ nextEntry = 1
     /\ \E op \in {"addExperience", "addEducation"} : EntryFind(op, "A", 0, "dev")
  \/ /\ Quiet
     /\ \E op \in {"removeExperience", "removeEducation"}, e \in EntryIds :
          EntryFind(op, "A", e, "")
  \/ \E r \in Inflight : EntryAdd(r)
  \/ \E r \in Inflight : EntryRemove(r)
  \/ /\ Quiet
     /\ DeleteOwnProfile("A")
  \/ \E r \in Inflight : DeleteOwnUser(r)

SessionSpec == Init /\ [][SessionNext]_vars

\* Lookups of GitHub repositories next to requests on posts, interleaving.
GithubNext ==
  \/ /\ Concurrent
     /\ GithubRequest
  \/ \E r \in Inflight : GithubCallback(r)
  \/ /\ Concurrent
     /\ \E p \in Racers : CreatePost(p, "hello")
  \/ /\ Concurrent
     /\ \E p \in Racers, id \in PostIds : GetPost(p, id)
  \/ /\ Concurrent
     /\ \E p \in Racers, id \in PostIds : LikeFind("like", p, id)
  \/ \E r \in Inflight : LikeSave(r)

GithubSpec == Init /\ [][GithubNext]_vars

\* Posts created, deleted and listed by racing principals.
ListNext ==
  \/ /\ Concurrent
     /\ \E p \in Racers : CreatePost(p, "hello")
  \/ /\ Concurrent
     /\ \E p \in Racers, id \in PostIds : DeletePostFind(p, id)
  \/ \E r \in Inflight : DeletePostRemove(r)
  \/ /\ Concurrent
     /\ \E p \in Racers : ListPosts(p)

ListSpec == Init /\ [][ListNext]_vars

\* Three principals who create one post and like, unlike, read and delete
\* it, each request sent after the one before has ended.
RoundTripNext ==
  \/ /\ Quiet /\ nextPost = 1
     /\ \E p \in Principals : CreatePost(p, "hello")
  \/ /\ Quiet
     /\ \E op \in {"like", "unlike"}, p \in Principals : LikeFind(op, p, 1)
  \/ \E r \in Inflight : LikeSave(r)
  \/ \E r \in Inflight : UnlikeSave(r)
  \/ /\ Quiet
     /\ \E p \in Principals : DeletePostFind(p, 1)
  \/ \E r \in Inflight : DeletePostRemove(r)
  \/ /\ Quiet
     /\ \E p \in Principals : GetPost(p, 1)

RoundTripSpec == Init /\ [][RoundTripNext]_vars

\* Likes of three principals racing on one post.
LikeOnlyNext ==
  \/ /\ Concurrent
     /\ \E p \in Principals : LikeFind("like", p, 1)
  \/ \E r \in Inflight : LikeSave(r)

LikeOnlySpec == InitPostBy(Racers) /\ [][LikeOnlyNext]_vars

\* Comments added to the post of B by two racing principals, and deleted
\* by one of them.
CommentRaceNext ==
  \/ /\ OneEach
     /\ \E p \in Racers : CommentFind(p, 1, "hello")
  \/ \E r \in Inflight : CommentRespond(r)
  \/ \E r \in Inflight : CommentPersist(r)
  \/ /\ OneEach
     /\ \E cid \in CommentIds : UncommentFind("A", 1, cid)
  \/ \E r \in Inflight : UncommentSave(r)

CommentRaceSpec == InitPostBy({"B"}) /\ [][CommentRaceNext]_vars

\* Every handler, for every principal and parameter, interleaving at will.
Next ==
  \/ /\ Concurrent
     /\ \/ \E p \in Principals, t \in Texts : CreatePost(p, t)
        \/ \E p \in Principals, id \in IdParams : GetPost(p, id)
        \/ \E p \in Principals : ListPosts(p)
        \/ \E p \in Principals, id \in IdParams : DeletePostFind(p, id)
        \/ \E op \in {"like", "unlike"}, p \in Principals, id \in IdParams :
             LikeFind(op, p, id)
        \/ \E p \in Principals, id \in IdParams, t \in Texts : CommentFind(p, id, t)
        \/ \E p \in Principals, id \in IdParams, cid \in CommentIds :
             UncommentFind(p, id, cid)
        \/ \E p \in Principals, b \in Bodies : UpsertFind(p, b)
        \/ \E op \in {"addExperience", "addEducation"}, p \in Principals, t \in Statuses :
             EntryFind(op, p, 0, t)
        \/ \E op \in {"removeExperience", "removeEducation"}, p \in Principals,
               e \in EntryIds : EntryFind(op, p, e, "")
        \/ \E p \in Principals : DeleteOwnProfile(p)
        \/ GithubRequest
  \/ \E r \in Inflight :
        \/ DeletePostRemove(r)
        \/ LikeSave(r)
        \/ UnlikeSave(r)
        \/ CommentRespond(r)
        \/ CommentPersist(r)
        \/ UncommentSave(r)
        \/ UpsertWrite(r)
        \/ EntryAdd(r)
        \/ EntryRemove(r)
        \/ DeleteOwnUser(r)
        \/ GithubCallback(r)

Spec == Init /\ [][Next]_vars

\* ------------------------------------------------------------------ claims
\* The entries of post `id` other than its likes are the same after the step.
OnlyLikesChange(id) ==
  /\ DOMAIN posts' = DOMAIN posts
  /\ \A i \in DOMAIN posts : i # id => posts'[i] = posts[i]
  /\ posts'[id].user = posts[id].user
  /\ posts'[id].comments = posts[id].comments

\* C1: in every reachable state, whatever the interleaving of the like and
\* unlike requests (and of deletions), the persisted likes of every post
\* hold at most one entry per user.
C1_OneLikePerUser == \A id \in DOMAIN posts : NoDup(posts[id].likes)

\* C1 witness: a like of a user was persisted and answered while a second
\* like request of the same user, which loaded the post before, is suspended.
C1_Witness ==
  /\ resp.op = "like" /\ resp.code = 200
  /\ 1 \in DOMAIN posts /\ posts[1].likes = resp.body
  /\ \E r \in Inflight :
        /\ r.op = "like" /\ ~Liked(r.doc, r.user)
        /\ Liked(posts[1], r.user)
        /\ resp.body[1] = r.user

\* C2: a delete by a principal who is not the owner is answered 401 and
\* changes no post; a delete by the owner answered 200 leaves the post
\* absent (a rejected remove is answered 500 and changes nothing); a post
\* leaves the store only in a step of its owner's delete request; a deleted
\* id is never stored again and every get of it is answered 404.
C2_DeleteByOwnerOnly ==
  [][ /\ \A r \in Inflight : (r.op = "delete" /\ Resume(r)) =>
           IF r.user # r.doc.user
             THEN resp' = Response("delete", r.id, 401, <<>>) /\ posts' = posts
             ELSE \/ resp'.code = 200 /\ r.id \notin DOMAIN posts'
                  \/ resp'.code = 500 /\ posts' = posts
      /\ \A id \in DOMAIN posts : id \notin DOMAIN posts' =>
           \E r \in Inflight :
             r.op = "delete" /\ r.id = id /\ r.user = posts[id].user /\ Resume(r)
      /\ \A id \in PostIds : (id < nextPost /\ id \notin DOMAIN posts) =>
           /\ id \notin DOMAIN posts'
           /\ (resp' # resp /\ resp'.op = "get" /\ resp'.id = id) => resp'.code = 404
    ]_vars

\* C2 witness: post 1 was deleted and a get of it was answered 404 while a
\* delete of post 2 by a principal who is not its owner is suspended.
C2_Witness ==
  /\ nextPost > 2 /\ 1 \notin DOMAIN posts /\ 2 \in DOMAIN posts
  /\ resp = Response("get", 1, 404, <<>>)
  /\ \E r \in Inflight : r.op = "delete" /\ r.id = 2 /\ r.user # posts[2].user

\* C6: a like by a user whose like is stored is answered 400 and the stored
\* likes stay as they are; otherwise the user is inserted at index 0, the
\* previous entries follow in their order, and that array is the response.
C6_LikeContract ==
  [][ \A r \in Inflight : (r.op = "like" /\ Resume(r) /\ r.id \in DOMAIN posts) =>
        LET old == posts[r.id].likes IN
        IF \E i \in 1..Len(old) : old[i] = r.user
          THEN resp' = Response("like", r.id, 400, <<>>) /\ posts' = posts
          ELSE \/ /\ resp'.code = 200
                  /\ OnlyLikesChange(r.id)
                  /\ Len(posts'[r.id].likes) = Len(old) + 1
                  /\ posts'[r.id].likes[1] = r.user
                  /\ \A i \in 1..Len(old) : posts'[r.id].likes[i + 1] = old[i]
                  /\ resp'.body = posts'[r.id].likes
               \/ resp'.code = 500 /\ posts' = posts
    ]_vars

\* C6 witness: three likes are stored, newest first, and a further like by
\* one of the three users was answered 400.
C6_Witness ==
  /\ resp = Response("like", 1, 400, <<>>)
  /\ Len(posts[1].likes) = 3
  /\ posts[1].likes[1] = "A"

\* C7: an unlike by a user with no stored like is answered 400 and the
\* stored likes stay as they are; otherwise exactly the first entry of that
\* user is removed, the other entries keep their order, and that array is
\* the response.
C7_UnlikeContract ==
  [][ \A r \in Inflight : (r.op = "unlike" /\ Resume(r) /\ r.id \in DOMAIN posts) =>
        LET old == posts[r.id].likes IN
        IF \A i \in 1..Len(old) : old[i] # r.user
          THEN resp' = Response("unlike", r.id, 400, <<>>) /\ posts' = posts
          ELSE \/ /\ resp'.code = 200
                  /\ OnlyLikesChange(r.id)
                  /\ \E i \in 1..Len(old) :
                       /\ old[i] = r.user
                       /\ \A j \in 1..(i - 1) : old[j] # r.user
                       /\ posts'[r.id].likes =
                            SubSeq(old, 1, i - 1) \o SubSeq(old, i + 1, Len(old))
                  /\ resp'.body = posts'[r.id].likes
               \/ resp'.code = 500 /\ posts' = posts
    ]_vars

\* C7 witness: the middle one of three likes was removed and the two others
\* were sent back in their order.
C7_Witness ==
  /\ resp.op = "unlike" /\ resp.code = 200
  /\ resp.body = <<"C", "A">>
  /\ posts[1].likes = resp.body

\* C3: a delete-comment whose :comm_id names a comment of the post, as the
\* request loaded it, written by somebody else is answered 401 and changes
\* no post, whether or not the caller owns the post.
C3_OnlyAuthorDeletes ==
  [][ \A r \in Inflight : (r.op = "uncomment" /\ Resume(r)) =>
        \A i \in 1..Len(r.doc.comments) :
          (r.doc.comments[i].id = r.cid /\ r.doc.comments[i].user # r.user) =>
            resp' = Response("uncomment", r.id, 401, <<>>) /\ posts' = posts
    ]_vars

\* C3 witness: every comment ever made is stored on the post of A, all are
\* by B, and a delete-comment was answered 401: the caller was A, the owner
\* of the post.
C3_Witness ==
  /\ resp = Response("uncomment", 1, 401, <<>>)
  /\ posts[1].user = "A"
  /\ Len(posts[1].comments) = 2 /\ nextComment = 3
  /\ \A i \in 1..2 : posts[1].comments[i].user = "B"

\* C4: a delete-comment answered 200 removes the comment named by :comm_id
\* and nothing else: the stored comments are the loaded ones without that
\* comment, in their order.
C4_RemovesNamedComment ==
  [][ \A r \in Inflight :
        (r.op = "uncomment" /\ Resume(r) /\ resp'.code = 200 /\ r.id \in DOMAIN posts) =>
          LET keep(c) == c.id # r.cid IN
          posts'[r.id].comments = SelectSeq(r.doc.comments, keep)
    ]_vars

ProfilesOf(store, p) == {i \in DOMAIN store : store[i].user = p}

C8_RemoveByIdentity ==
  [][ \A r \in Inflight :
        (r.op \in {"removeExperience", "removeEducation"} /\ Resume(r)) =>
          LET path == PathOf(r.op)
              old  == profiles[r.id][path]
              keep(e) == e.id # r.cid
          IN
          IF \A i \in 1..Len(old) : old[i].id # r.cid
            THEN resp' = Response(r.op, r.id, 400, <<>>) /\ profiles' = profiles
            ELSE \/ /\ resp'.code = 200
                    /\ profiles' = [profiles EXCEPT ![r.id][path] = SelectSeq(old, keep)]
                    /\ Len(profiles'[r.id][path]) = Len(old) - 1
                 \/ resp'.code = 500 /\ profiles' = profiles
    ]_vars

\* C8 witness: the middle one of three education entries was removed.
C8_Witness ==
  /\ resp.op = "removeEducation" /\ resp.code = 200
  /\ \E i \in DOMAIN profiles : profiles[i].education = <<[id |-> 3], [id |-> 1]>>

\* C9: an add answered 200 stores the new entry at index 0 with the previous
\* entries behind it in their order; entries are numbered as they are added,
\* so every list shows its entries newest first.
C9_AddAtHead ==
  [][ /\ \A r \in Inflight :
           (r.op \in {"addExperience", "addEducation"} /\ Resume(r) /\ resp'.code = 200) =>
             LET path == PathOf(r.op)
                 old  == profiles[r.id][path]
                 new  == profiles'[r.id][path]
             IN /\ Len(new) = Len(old) + 1
                /\ new[1].id = nextEntry
                /\ \A i \in 1..Len(old) : new[i + 1] = old[i]
      /\ \A i \in DOMAIN profiles' : \A path \in {"experience", "education"} :
           \A j, k \in 1..Len(profiles'[i][path]) :
             j < k => profiles'[i][path][j].id > profiles'[i][path][k].id
    ]_vars

\* C9 witness: three experience entries were added to one Profile and are
\* stored in reverse order of insertion.
C9_Witness ==
  /\ resp.op = "addExperience" /\ resp.code = 200
  /\ \E i \in DOMAIN profiles : profiles[i].experience = <<[id |-> 3], [id |-> 2], [id |-> 1]>>

\* C10: an upsert of a stored Profile answered 200 leaves every optional
\* field the request does not carry as it was, the five social links
\* included.
C10_PartialUpdate ==
  [][ \A r \in Inflight :
        (r.op = "upsert" /\ Resume(r) /\ r.id \in DOMAIN profiles /\ resp'.code = 200) =>
          /\ \A k \in TopKeys :
               k \notin DOMAIN r.doc => profiles'[r.id][k] = profiles[r.id][k]
          /\ \A k \in SocialKeys :
               k \notin DOMAIN r.doc.social =>
                 profiles'[r.id].social[k] = profiles[r.id].social[k]
    ]_vars

C12_NoCrossUserEntries ==
  [][ \A r \in Inflight :
        (r.op \in {"addExperience", "addEducation", "removeExperience", "removeEducation"}
           /\ Resume(r)) =>
          /\ DOMAIN profiles' = DOMAIN profiles
          /\ \A i \in DOMAIN profiles :
               profiles[i].user # r.user => profiles'[i] = profiles[i]
    ]_vars

\* C12 witness: every entry id there is names an experience entry of B, A
\* has no entry at all, and a remove-experience of A was answered 400: the
\* id it named is in B's list, and B's list is whole.
C12_Witness ==
  /\ resp.op = "removeExperience" /\ resp.code = 400
  /\ profiles[resp.id].user = "A"
  /\ profiles[resp.id].experience = <<>> /\ profiles[resp.id].education = <<>>
  /\ \E j \in DOMAIN profiles :
        /\ profiles[j].user = "B"
        /\ \A e \in EntryIds :
              \E k \in 1..Len(profiles[j].experience) : profiles[j].experience[k].id = e

\* C13: a like, unlike, add-comment or delete-comment that names a post id
\* matching no Post is answered 404, and an add or remove of an experience
\* or education entry by a principal without a Profile is answered with a
\* not-found status (404 or 400), never 500; the store stays as it is.
C13_AbsentIsNotFound ==
  [][ /\ ( /\ resp'.op \in {"like", "unlike", "comment", "uncomment"}
            /\ reqs' = reqs /\ resp' # resp
            /\ resp'.id \in PostIds \ DOMAIN posts ) =>
           /\ resp'.code = 404
           /\ posts' = posts
      /\ ( /\ resp'.op \in {"addExperience", "addEducation",
                              "removeExperience", "removeEducation"}
            /\ reqs' = reqs /\ resp' # resp
            /\ DOMAIN profiles = {} ) =>
           /\ resp'.code \in {400, 404}
           /\ profiles' = profiles
    ]_vars

\* C14: whenever the store rejects the write of an operation, the step
\* that meets the rejection answers the caller 500 and the process goes on;
\* no request that was answered 200 has its write rejected afterwards.
C14_FailureIsAnswered ==
  [][ written' = "rejected" =>
        /\ up'
        /\ resp'.code = 500
        /\ \A r \in Inflight : r \notin BagToSet(reqs') =>
             r.pc # "pending" /\ resp'.op = r.op
    ]_vars

\* C15: every step that ends a lookup of GitHub repositories, whatever the
\* upstream request ended with, sends a response and leaves the process
\* running.
C15_EnrichmentNeverCrashes ==
  [][ \A r \in Inflight : (r.op = "github" /\ r \notin BagToSet(reqs')) =>
        /\ up'
        /\ resp'.op = "github"
        /\ resp'.code \in {200, 404, 500}
    ]_vars

\* C16: a list-posts answered 200 sends every stored Post once, and no Post
\* comes before one with a later date, whatever the order in which the
\* posts were stored and whichever were deleted.
C16_ListNewestFirst ==
  [][ (resp'.op = "list" /\ resp'.code = 200 /\ posts' = posts /\ reqs' = reqs) =>
        LET body == resp'.body IN
        /\ Len(body) = Cardinality(DOMAIN posts)
        /\ {body[k] : k \in 1..Len(body)} = DOMAIN posts
        /\ \A j, k \in 1..Len(body) :
             j < k => posts[body[j]].date >= posts[body[k]].date
    ]_vars

\* C16 witness: two posts are listed, and the one stored first carries the
\* later date and is listed first.
C16_Witness ==
  /\ resp.op = "list" /\ resp.code = 200
  /\ Len(resp.body) = 2
  /\ resp.body[1] < resp.body[2]
  /\ \A k \in 1..2 : resp.body[k] \in DOMAIN posts
  /\ posts[resp.body[1]].date > posts[resp.body[2]].date

\* C17: a post answered 200 by create is stored with no like and no comment;
\* a like answered 200 puts the caller in front of the likes that were
\* stored and sends the result, and an unlike by the same principal that is
\* the next request on the post, answered 200, stores the sent likes
\* without their head: the likes of before the like, in their order; a get
\* of a post that was created and is stored no more is answered 404.
C17_RoundTrip ==
  [][ /\ (resp'.op = "create" /\ resp'.code = 200 /\ nextPost' # nextPost) =>
           /\ posts'[nextPost].likes = <<>>
           /\ posts'[nextPost].comments = <<>>
      /\ \A r \in Inflight : (r.op = "like" /\ Resume(r) /\ resp'.code = 200) =>
           /\ posts'[r.id].likes = <<r.user>> \o posts[r.id].likes
           /\ resp'.body = posts'[r.id].likes
      /\ \A r \in Inflight :
           ( /\ r.op = "unlike" /\ Resume(r) /\ resp'.code = 200
             /\ resp.op = "like" /\ resp.code = 200 /\ resp.id = r.id
             /\ Head(resp.body) = r.user ) =>
               posts'[r.id].likes = Tail(resp.body)
      /\ \A id \in PostIds :
           ( /\ id < nextPost /\ id \notin DOMAIN posts
             /\ resp' # resp /\ resp'.op = "get" /\ resp'.id = id ) =>
               resp'.code = 404
    ]_vars

\* C17 witness: on a post of A that A had liked, the like of B was taken
\* back: the unlike sent the likes of before, A alone.
C17_Witness ==
  /\ resp.op = "unlike" /\ resp.code = 200 /\ resp.body = <<"A">>
  /\ resp.id \in DOMAIN posts
  /\ posts[resp.id].user = "A"
  /\ posts[resp.id].likes = <<"A">>
  /\ posts[resp.id].comments = <<>>

\* C18: a like answered 200 stores the likes its request loaded with the
\* caller in front, whatever was stored since the load: of two likes that
\* loaded the same post the one saved last wins.
C18_LastWriterWins ==
  [][ \A r \in Inflight :
        (r.op = "like" /\ Resume(r) /\ resp'.code = 200 /\ r.id \in DOMAIN posts) =>
          posts'[r.id].likes = <<r.user>> \o r.doc.likes
    ]_vars

\* C18 witness: the like of B was answered 200 and the stored likes are B
\* alone, while a request in flight holds the copy it loaded in between,
\* with the like of A: that like was stored, and answered 200 in the step
\* that stored it, and the save of B wrote over it.
C18_Witness ==
  /\ resp = Response("like", 1, 200, <<"B">>)
  /\ posts[1].likes = <<"B">>
  /\ \E r \in Inflight : r.op = "like" /\ r.id = 1 /\ r.doc.likes = <<"A">>

\* The comments written by somebody else than p, in their order.
CommentsOfOthers(comments, p) ==
  LET other(c) == c.user # p IN SelectSeq(comments, other)

\* C20, as claimed: in every step of a delete-comment request of P the
\* comments stored on every post whose user differs from P are the same
\* before and after.
C20_OthersCommentsStay ==
  [][ \A r \in Inflight : (r.op = "uncomment" /\ Resume(r)) =>
        /\ DOMAIN posts' = DOMAIN posts
        /\ \A id \in DOMAIN posts :
             CommentsOfOthers(posts'[id].comments, r.user)
               = CommentsOfOthers(posts[id].comments, r.user)
    ]_vars

\* C20, amended: a delete-comment request of P removes no comment of
\* another user from the comments it loaded.  Answered 200, it stores the
\* comments it loaded without one comment of P, the comments of the others
\* in their order; with any other answer it stores nothing; no other post
\* changes.
C20_LoadedCommentsOfOthersStay ==
  [][ \A r \in Inflight : (r.op = "uncomment" /\ Resume(r)) =>
        /\ DOMAIN posts' = DOMAIN posts
        /\ \A id \in DOMAIN posts : id # r.id => posts'[id] = posts[id]
        /\ IF resp'.code = 200 /\ r.id \in DOMAIN posts
             THEN /\ CommentsOfOthers(posts'[r.id].comments, r.user)
                       = CommentsOfOthers(r.doc.comments, r.user)
                  /\ Len(posts'[r.id].comments) = Len(r.doc.comments) - 1
             ELSE posts' = posts
    ]_vars

\* C20 witness: A deleted a comment of its own and was answered 200; the
\* stored comments are the ones sent, a comment of B in front of a comment
\* of A.
C20_Witness ==
  /\ resp.op = "uncomment" /\ resp.code = 200
  /\ posts[1].comments = resp.body
  /\ Len(resp.body) = 2
  /\ resp.body[1].user = "B" /\ resp.body[2].user = "A"

\* The mutations that await their write.
Awaited ==
  {"delete", "like", "unlike", "uncomment", "upsert", "deleteOwn",
   "addExperience", "addEducation", "removeExperience", "removeEducation"}

\* C19: add-comment sends its 200 with its write under way and not
\* acknowledged; every other mutation sends its 200 in the step in which
\* the store acknowledged its write, and delete-own after the store
\* acknowledged the removal of the Profile too.
C19_AnswerAfterWrite ==
  [][ /\ \A r \in Inflight :
           (r.op \in Awaited /\ Resume(r) /\ resp'.code = 200) => written' = "ack"
      /\ (resp'.op = "create" /\ resp'.code = 200 /\ nextPost' # nextPost) =>
           written' = "ack"
      /\ \A r \in BagToSet(reqs') : (r.op = "deleteOwn" /\ Suspend(r)) =>
           written' = "ack"
      /\ \A r \in Inflight :
           (r.op = "comment" /\ r.pc = "loaded" /\ r \notin BagToSet(reqs')) =>
             /\ resp'.code = 200
             /\ written' = "none"
             /\ posts' = posts
             /\ \E q \in BagToSet(reqs') :
                  q.op = "comment" /\ q.pc = "pending" /\ q.doc.comments = resp'.body
    ]_vars

\* C19 witness: the 200 of an add-comment is the last response, its write
\* is still under way, and the comment it sent is not stored.
C19_Witness ==
  /\ resp.op = "comment" /\ resp.code = 200
  /\ resp.id \in DOMAIN posts
  /\ posts[resp.id].comments = <<>>
  /\ Len(resp.body) = 1
  /\ \E r \in Inflight : r.op = "comment" /\ r.pc = "pending" /\ r.doc.comments = resp.body

====
